---- MODULE Spec2Model ----
(***************************************************************************)
(* apollo-proxy-cache: createProxyCacheMiddleware.                         *)
(*                                                                         *)
(* Three express stages share one cache store (queryCache):                *)
(*   directiveMiddleware -> hashMiddleware -> proxyMiddleware              *)
(* Every `await` of the source is a suspension point, so each handler is   *)
(* split into one action per synchronous segment; requests interleave at   *)
(* those points only.                                                      *)
(*                                                                         *)
(* Value encoding.  JavaScript values are strings ("undefined", "null",    *)
(* "" and payload names), optional things are sequences of length 0 or 1,  *)
(* texts are sequences of tokens.                                          *)
(***************************************************************************)
EXTENDS Integers, Sequences, FiniteSets, TLC

\* ---------------------------------------------------------------- bounds
NumReqs == 2
MaxClock == 1

Reqs == 1..NumReqs

\* ------------------------------------------------------- JavaScript values
Undefined == "undefined"
Null == "null"
EmptyString == ""

\* ToBoolean of the values that occur: undefined, null and "" are falsy.
Truthy(v) == v \notin {Undefined, Null, EmptyString}

\* An optional value: << >> is "no value", <<v>> is the value v.
None == << >>
Some(v) == <<v>>
IsSome(o) == Len(o) = 1
The(o) == o[1]

\* ------------------------------------------------------------ constants
CACHE_HEADER == "X-Proxy-Cached"
CACHE_HASH_HEADER == "X-Proxy-Hash"
DIRECTIVE == "cache"

\* ------------------------------------------------------------ query texts
\* A query text is a sequence of tokens.  The empty text is the falsy query
\* (undefined or ""), BadText is a text the graphql parser rejects.
NoQuery == << >>
BadText == <<"}{">>
PlainText == <<"query", "x">>
CachedTextA == <<"query", "x", DIRECTIVE, "a", "1">>
Texts == {NoQuery, BadText, PlainText, CachedTextA}

\* graphql parse: a document, or a GraphQLError for a text that is no query.
ParseThrows(text) == Len(text) < 2 \/ text[1] # "query"
parse(text) ==
    [ op |-> text[2],
      directives |-> IF Len(text) = 5 /\ text[3] = DIRECTIVE
                     THEN << [name |-> text[3], id |-> text[4], timeout |-> text[5]] >>
                     ELSE << >> ]

\* graphql print: the text of a document.
print(doc) ==
    IF Len(doc.directives) = 0
    THEN <<"query", doc.op>>
    ELSE <<"query", doc.op, doc.directives[1].name,
           doc.directives[1].id, doc.directives[1].timeout>>

\* apollo-utilities hasDirectives([DIRECTIVE], doc)
hasDirectives(names, doc) ==
    \E i \in 1..Len(doc.directives) : doc.directives[i].name \in names

\* utils-browser-only removeCacheDirective: the document without the directive.
removeCacheDirective(doc) ==
    [doc EXCEPT !.directives = SelectSeq(doc.directives, LAMBDA d : d.name # DIRECTIVE)]

\* Number(...) of the timeout argument's text.
ToNumber(s) == CASE s = "1" -> 1 [] s = "2" -> 2 [] OTHER -> 0

\* utils-browser-only calculateArguments: the declared id, passed through the
\* key modifier when one is configured, and the declared timeout.
Users == {"u1", "u2"}
cacheKeyModifier(id, context) == <<id, context>>
calculateArguments(doc, modifier, context) ==
    LET d == doc.directives[1] IN
    [ id |-> IF modifier THEN cacheKeyModifier(d.id, context) ELSE <<d.id>>,
      timeout |-> ToNumber(d.timeout) ]

\* ------------------------------------------------------------ request body
\* req.body: None when body-parser left it unset, else Some([query |-> text]).
Bodies == {Some([query |-> t]) : t \in Texts}
JSONstringify(v) == <<"json", v>>
JSONparse(s) == s[2]
md5(s) == <<"md5", s>>
Hashes == {md5(JSONstringify(The(b))) : b \in Bodies}
Ids == {"a"}
Keys == {<<i>> : i \in Ids} \cup {<<i, u>> : i \in Ids, u \in Users}

\* ------------------------------------------------------------- the inputs
Methods == {"POST", "GET"}
\* req.header(cacheBypassHeader): undefined when the header is not sent, else
\* its value, which may be the empty string.
HeaderValues == {Undefined, EmptyString, "1"}
\* The method is read only when req.body is unset; requests that carry a query
\* text are the POSTs of a GraphQL client.
Requests ==
    { q \in [method : Methods, body : {None} \cup Bodies, header : HeaderValues,
             user : Users] :
        (IsSome(q.body) /\ The(q.body).query # NoQuery) => q.method = "POST" }

\* What upstream may answer: a body that is no JSON, or a GraphQL result.
\* "partial" is the data of a result that also carries errors.
Payloads == {"d1", "d2"}
Results == { [errors |-> Undefined, data |-> "d1"],
             [errors |-> Undefined, data |-> "d2"],
             [errors |-> Undefined, data |-> Null],
             [errors |-> "errs", data |-> Null],
             [errors |-> "errs", data |-> "partial"] }
Garbage == <<"<html>">>
Replies == {Garbage} \cup {JSONstringify(x) : x \in Results}
JSONparseThrows(s) == s[1] # "json"

\* createProxyCacheMiddleware(queryCache, cacheKeyModifier, cacheBypassHeader,
\* globalTimeout): the configurations considered.
Configs == [ keyModifier : {FALSE}, cacheBypassHeader : {None, Some("x-bypass")},
             globalTimeout : {0, 1} ]
\* The same with a key modifier that namespaces the declared id by the user.
ModifierConfigs == [ keyModifier : {TRUE}, cacheBypassHeader : {None, Some("x-bypass")},
                     globalTimeout : {0} ]
\* The same with a global timeout of more than one tick.
LongTimeout == 2
SlidingConfigs == [ keyModifier : {FALSE}, cacheBypassHeader : {None, Some("x-bypass")},
                    globalTimeout : {LongTimeout} ]

\* ------------------------------------------------------------------ state
VARIABLES
    cfg,        \* the arguments of createProxyCacheMiddleware
    load,       \* how requests arrive (one after another, repeated, overlapping)
    now,        \* the clock
    cache,      \* queryCache, scalar entries: key -> optional [val, exp]
    hcache,     \* queryCache, hash records: hash -> optional [fields, exp]
    pc,         \* where each request is
    orig,       \* the request as it arrived
    req,        \* the request object (req.body is rewritten by the directive phase)
    hasCache,   \* req._hasCache
    bodyHash,   \* req._bodyHash
    res,        \* the response sent by a middleware: headers and json body
    fwd,        \* what onProxyReq wrote to upstream
    proxyRes,   \* the upstream reply
    relayed,    \* the upstream reply as handed on to the caller
    errs,       \* the channels (errorOnGet, errorOnSet) an error was reported on
    stamp,      \* the timestamp argument of the hset a request has issued
    threw,      \* the exceptions raised while each request was handled
    nexts,      \* the stages that called next() for each request
    lapsed,     \* whether the hash record of a finished request has expired since
    deadline,   \* the expiry the 'response' write of each request set
    ops         \* the store operations each request issued, in order

vars == <<cfg, load, now, cache, hcache, pc, orig, req, hasCache, bodyHash, res, fwd,
          proxyRes, relayed, errs, stamp, threw, nexts,
          lapsed, deadline, ops>>

storeVars == <<cache, hcache>>
reqVars == <<orig, req, hasCache, bodyHash, res, fwd, proxyRes, relayed, errs, stamp,
             threw, nexts, lapsed, deadline, ops>>

IdleRequest == [method |-> "POST", body |-> None, header |-> Undefined, user |-> "u1"]
NoResponse == [by |-> "none", headers |-> {}, body |-> None]

InitState ==
    /\ now = 0
    /\ cache = [k \in Keys |-> None]
    /\ hcache = [h \in Hashes |-> None]
    /\ pc = [r \in Reqs |-> "idle"]
    /\ orig = [r \in Reqs |-> IdleRequest]
    /\ req = [r \in Reqs |-> IdleRequest]
    /\ hasCache = [r \in Reqs |-> None]
    /\ bodyHash = [r \in Reqs |-> None]
    /\ res = [r \in Reqs |-> NoResponse]
    /\ fwd = [r \in Reqs |-> None]
    /\ proxyRes = [r \in Reqs |-> None]
    /\ relayed = [r \in Reqs |-> None]
    /\ errs = [r \in Reqs |-> {}]
    /\ stamp = [r \in Reqs |-> None]
    /\ threw = [r \in Reqs |-> {}]
    /\ nexts = [r \in Reqs |-> {}]
    /\ lapsed = [r \in Reqs |-> FALSE]
    /\ deadline = [r \in Reqs |-> None]
    /\ ops = [r \in Reqs |-> << >>]

\* Any request, any store content earlier requests left, one request at a time.
Init == InitState /\ cfg \in Configs /\ load = "serial"

\* ------------------------------------------------------- the cache store
\* The Cache contract: entries expire `timeout` after they were written; a
\* timeout of 0 sets no expiry.
NoExpiry == 0
Deadline(timeout) == IF timeout = 0 THEN NoExpiry ELSE now + timeout
Expired(e, t) == e.exp # NoExpiry /\ e.exp <= t

CacheGet(key) == IF IsSome(cache[key]) THEN The(cache[key]).val ELSE Null
CacheSet(key, value, timeout) ==
    [cache EXCEPT ![key] = Some([val |-> value, exp |-> Deadline(timeout)])]

NoFields == [lastRequested |-> None, request |-> None, response |-> None]
CacheHget(key) == IF IsSome(hcache[key]) THEN Some(The(hcache[key]).fields) ELSE None
CacheHset(hc, key, field, value, timeout) ==
    LET old == IF IsSome(hc[key]) THEN The(hc[key]).fields ELSE NoFields IN
    [hc EXCEPT ![key] = Some([fields |-> [old EXCEPT ![field] = Some(value)],
                              exp |-> Deadline(timeout)])]

\* new Date().toISOString()
toISOString(t) == <<"T", t>>

\* Time passes; what has expired is gone.
ClockLimit == IF load = "sliding" THEN MaxClock + LongTimeout ELSE MaxClock
Tick ==
    /\ now < ClockLimit
    /\ now' = now + 1
    /\ cache' = [k \in Keys |->
                    IF IsSome(cache[k]) /\ Expired(The(cache[k]), now + 1)
                    THEN None ELSE cache[k]]
    /\ hcache' = [h \in Hashes |->
                    IF IsSome(hcache[h]) /\ Expired(The(hcache[h]), now + 1)
                    THEN None ELSE hcache[h]]
    /\ lapsed' = [r \in Reqs |->
                    \/ lapsed[r]
                    \/ /\ pc[r] = "done" /\ IsSome(bodyHash[r])
                       /\ IsSome(hcache[The(bodyHash[r])])
                       /\ Expired(The(hcache[The(bodyHash[r])]), now + 1)]
    /\ UNCHANGED <<cfg, load, pc, orig, req, hasCache, bodyHash, res, fwd, proxyRes,
                   relayed, errs, stamp, threw, nexts, deadline, ops>>

Log(r, entry) == ops' = [ops EXCEPT ![r] = Append(@, entry)]
Throws(r, what) == threw' = [threw EXCEPT ![r] = @ \cup {what}]
\* A variant of CallNext: the stage mounted next is the proxy, whatever stage calls.
CallNext_PastHash(r, stage, to) ==
    /\ nexts' = [nexts EXCEPT ![r] = @ \cup {stage}]
    /\ pc' = [pc EXCEPT ![r] = "proxy"]
\* `next()`: express hands the request to the stage mounted next.
CallNext(r, stage, to) ==
    /\ nexts' = [nexts EXCEPT ![r] = @ \cup {stage}]
    /\ pc' = [pc EXCEPT ![r] = to]

\* ------------------------------------------------------------- a request
\* The calls that are repeated: a plain query, and an annotated query sent with
\* the bypass header.
RepeatRequests ==
    { q \in Requests : /\ q.method = "POST" /\ q.user = "u1"
                       /\ \/ q.body = Some([query |-> PlainText]) /\ q.header = Undefined
                          \/ q.body = Some([query |-> CachedTextA]) /\ q.header = "1" }

\* The annotated calls of several users, with and without the bypass header.
UserRequests ==
    { q \in Requests : /\ q.method = "POST"
                       /\ q.body = Some([query |-> CachedTextA])
                       /\ q.header \in {Undefined, "1"} }

Finished(r) == pc[r] \in {"done", "rejected"}

\* A request arrives.  Under "serial" load request r + 1 is sent once request r
\* has finished and only the store remembers the earlier requests (the request
\* object of a finished request is gone; the user is not read when no key
\* modifier is configured, so one user sends them).  Under "sequence" and
\* "sliding" load a call and its repetition are sent one after the other, under
\* "users" load the calls of several users, under "overlap" load the calls
\* are in flight together; the history of every call is kept.
Admissible(r, q) ==
    /\ pc[r] = "idle"
    /\ \A s \in Reqs : s < r =>
          IF load = "overlap" THEN pc[s] # "idle" ELSE Finished(s) \/ pc[s] = "gone"
    /\ load = "serial" => q \in Requests /\ q.user = "u1"
    /\ load \in {"sequence", "sliding", "overlap"} => r <= 2 /\ q \in RepeatRequests
    /\ load = "users" => r <= 2 /\ q \in UserRequests

Forget(r, f, blank) ==
    [s \in Reqs |-> IF s # r /\ load = "serial" THEN blank ELSE f[s]]

Arrive(r) ==
    /\ \E q \in Requests :
          /\ Admissible(r, q)
          /\ orig' = [Forget(r, orig, IdleRequest) EXCEPT ![r] = q]
          /\ req' = [Forget(r, req, IdleRequest) EXCEPT ![r] = q]
    /\ pc' = [s \in Reqs |-> IF s = r THEN "directive"
                             ELSE IF load = "serial" /\ Finished(s) THEN "gone"
                             ELSE pc[s]]
    /\ hasCache' = Forget(r, hasCache, None)
    /\ bodyHash' = Forget(r, bodyHash, None)
    /\ res' = Forget(r, res, NoResponse)
    /\ fwd' = Forget(r, fwd, None)
    /\ proxyRes' = Forget(r, proxyRes, None)
    /\ relayed' = Forget(r, relayed, None)
    /\ errs' = Forget(r, errs, {})
    /\ stamp' = Forget(r, stamp, None)
    /\ threw' = Forget(r, threw, {})
    /\ nexts' = Forget(r, nexts, {})
    /\ lapsed' = Forget(r, lapsed, FALSE)
    /\ deadline' = Forget(r, deadline, None)
    /\ ops' = Forget(r, ops, << >>)
    /\ UNCHANGED <<cfg, load, now, storeVars>>

\* `!req.body && req.method === 'POST'`: the warning and the early next().
SkipUnparsedBody(q) == ~IsSome(q.body) /\ q.method = "POST"
\* `req.body.query` of an undefined body: a TypeError.
BodyAccessThrows(q) == ~IsSome(q.body)
\* ToBoolean of req.body.query: undefined and "" are falsy.
HasQuery(q) == The(q.body).query # NoQuery

\* A handler is an async function express does not await: an exception that
\* leaves it rejects a promise nobody handles, next() is not called and no
\* response is sent.
Reject(r, what) ==
    /\ pc' = [pc EXCEPT ![r] = "rejected"]
    /\ Throws(r, what)

\* ---------------------------------------------------- directiveMiddleware
\* A variant of DirectiveDoc: an annotated document, whatever the text.
DirectiveDoc_Annotated(q) == parse(CachedTextA)
\* `const doc = parse(req.body.query)`
DirectiveDoc(q) == parse(The(q.body).query)
DirectiveArgs(q) == calculateArguments(DirectiveDoc(q), cfg.keyModifier, q.user)

\* Up to `await queryCache.get(id)`.
directiveMiddleware(r) ==
    /\ pc[r] = "directive"
    /\ LET q == req[r] IN
       IF SkipUnparsedBody(q)
       THEN CallNext(r, "directive", "hash") /\ UNCHANGED <<threw, ops>>
       ELSE IF BodyAccessThrows(q)
       THEN Reject(r, "body") /\ UNCHANGED <<nexts, ops>>
       ELSE IF ~HasQuery(q)
       THEN CallNext(r, "directive", "hash") /\ UNCHANGED <<threw, ops>>
       ELSE IF ParseThrows(The(q.body).query)
       THEN Reject(r, "graphql") /\ UNCHANGED <<nexts, ops>>
       ELSE IF ~hasDirectives({DIRECTIVE}, DirectiveDoc(q))
       THEN CallNext(r, "directive", "hash") /\ UNCHANGED <<threw, ops>>
       ELSE /\ pc' = [pc EXCEPT ![r] = "directive_get"]
            /\ Log(r, <<"get", DirectiveArgs(q).id>>)
            /\ UNCHANGED <<threw, nexts>>
    /\ UNCHANGED <<cfg, load, now, storeVars, lapsed, deadline, orig, req, hasCache, bodyHash, res, fwd,
                   proxyRes, relayed, errs, stamp>>

\* `if (possibleData)`
IsDirectiveHit(possibleData) == Truthy(possibleData)
\* A variant of RewriteBody: the body is left as it came.
RewriteBody_Kept(body, nextQuery) == body
\* `req.body = { ...req.body, query: print(nextQuery) }`
RewriteBody(body, nextQuery) == Some([The(body) EXCEPT !.query = print(nextQuery)])

\* A variant of DirectiveTry: what get found is not looked at.
DirectiveTry_Unread(q, possibleData) ==
    [ kind |-> "next", data |-> Null, hasCache |-> Some(DirectiveArgs(q)),
      body |-> RewriteBody(q.body, removeCacheDirective(DirectiveDoc(q))),
      report |-> {} ]
\* The rest of the try block, once get has resolved with possibleData.
DirectiveTry(q, possibleData) ==
    IF IsDirectiveHit(possibleData)
    THEN [ kind |-> "json", data |-> possibleData, hasCache |-> None,
           body |-> q.body, report |-> {} ]
    ELSE [ kind |-> "next", data |-> Null, hasCache |-> Some(DirectiveArgs(q)),
           body |-> RewriteBody(q.body, removeCacheDirective(DirectiveDoc(q))),
           report |-> {} ]
\* A variant of DirectiveCatch: the rejection of get leaves the handler.
DirectiveCatch_Rethrown(q) ==
    [ kind |-> "throw", data |-> Null, hasCache |-> None, body |-> q.body,
      report |-> {} ]
\* `catch (e) { errorOnGet(e) }`, then the next() after the if.
DirectiveCatch(q) ==
    [ kind |-> "next", data |-> Null, hasCache |-> None, body |-> q.body,
      report |-> {"get"} ]

\* get settles: it resolves with the entry (or null), or it rejects.
directiveGet(r) ==
    /\ pc[r] = "directive_get"
    /\ \E resolved \in BOOLEAN :
         LET out == IF resolved
                    THEN DirectiveTry(req[r], CacheGet(DirectiveArgs(req[r]).id))
                    ELSE DirectiveCatch(req[r])
         IN /\ hasCache' = [hasCache EXCEPT ![r] = out.hasCache]
            /\ req' = [req EXCEPT ![r].body = out.body]
            /\ errs' = [errs EXCEPT ![r] = @ \cup out.report]
            /\ IF resolved THEN UNCHANGED threw ELSE Throws(r, "get")
            /\ CASE out.kind = "json" ->
                      /\ res' = [res EXCEPT ![r] =
                                   [ by |-> "directive",
                                     headers |-> {<<CACHE_HEADER, "true">>},
                                     body |-> Some([data |-> out.data]) ]]
                      /\ pc' = [pc EXCEPT ![r] = "done"]
                      /\ UNCHANGED nexts
                 [] out.kind = "next" ->
                      /\ CallNext(r, "directive", "hash")
                      /\ UNCHANGED res
                 [] OTHER ->
                      /\ pc' = [pc EXCEPT ![r] = "rejected"]
                      /\ UNCHANGED <<res, nexts>>
    /\ UNCHANGED <<cfg, load, now, storeVars, lapsed, deadline, orig, bodyHash, fwd, proxyRes,
                   relayed, stamp, ops>>

\* --------------------------------------------------------- hashMiddleware
\* `!req.body.query || (cacheBypassHeader && req.header(cacheBypassHeader))`
SkipHash(c, q) ==
    ~HasQuery(q) \/ (IsSome(c.cacheBypassHeader) /\ Truthy(q.header))
\* A variant of BodyHashOf: the query text is left out of what is hashed.
BodyHashOf_NoQuery(q) == md5(JSONstringify([The(q.body) EXCEPT !.query = NoQuery]))
\* `crypto.createHash('md5').update(JSON.stringify(req.body)).digest('hex')`
BodyHashOf(q) == md5(JSONstringify(The(q.body)))

\* A variant of TouchTimeout: the touch sets no expiry.
TouchTimeout_None(c) == NoExpiry
\* The timeout argument of the hset of 'lastRequested': globalTimeout.
TouchTimeout(c) == c.globalTimeout

\* Up to `await queryCache.hset(bodyHash, 'lastRequested', ...)`.
hashMiddleware(r) ==
    /\ pc[r] = "hash"
    /\ LET q == req[r] IN
       IF SkipUnparsedBody(q)
       THEN CallNext(r, "hash", "proxy") /\ UNCHANGED <<bodyHash, stamp, threw, ops>>
       ELSE IF BodyAccessThrows(q)
       THEN Reject(r, "body") /\ UNCHANGED <<bodyHash, stamp, nexts, ops>>
       ELSE IF SkipHash(cfg, q)
       THEN CallNext(r, "hash", "proxy") /\ UNCHANGED <<bodyHash, stamp, threw, ops>>
       ELSE /\ bodyHash' = [bodyHash EXCEPT ![r] = Some(BodyHashOf(q))]
            /\ stamp' = [stamp EXCEPT ![r] = Some(toISOString(now))]
            /\ Log(r, <<"hset", BodyHashOf(q), "lastRequested">>)
            /\ pc' = [pc EXCEPT ![r] = "hash_hset"]
            /\ UNCHANGED <<threw, nexts>>
    /\ UNCHANGED <<cfg, load, now, storeVars, lapsed, deadline, orig, req, hasCache, res, fwd, proxyRes,
                   relayed, errs>>

\* What hashMiddleware does with a rejection of hset or hget: nothing catches
\* it, the exception leaves the handler.
HashCatch == [report |-> {}, next |-> FALSE]

HashCaught(r, what, c) ==
    /\ errs' = [errs EXCEPT ![r] = @ \cup c.report]
    /\ Throws(r, what)
    /\ IF c.next
       THEN CallNext(r, "hash", "proxy")
       ELSE pc' = [pc EXCEPT ![r] = "rejected"] /\ UNCHANGED nexts

\* hset settles.  Then `await queryCache.hget(bodyHash)`.
hashHset(r) ==
    /\ pc[r] = "hash_hset"
    /\ \E resolved \in BOOLEAN :
         IF resolved
         THEN /\ hcache' = CacheHset(hcache, The(bodyHash[r]), "lastRequested",
                                     The(stamp[r]), TouchTimeout(cfg))
              /\ Log(r, <<"hget", The(bodyHash[r])>>)
              /\ pc' = [pc EXCEPT ![r] = "hash_hget"]
              /\ UNCHANGED <<errs, threw, nexts>>
         ELSE HashCaught(r, "hset", HashCatch) /\ UNCHANGED <<hcache, ops>>
    /\ stamp' = [stamp EXCEPT ![r] = None]
    /\ UNCHANGED <<cfg, load, now, cache, lapsed, deadline, orig, req, hasCache, bodyHash, res,
                   fwd, proxyRes, relayed>>

\* A variant of IsHashHit: a field is read that is never written.
IsHashHit_MissingField(cachedQuery) == IsSome(cachedQuery) /\ FALSE
\* `cachedQuery && cachedQuery.response`
IsHashHit(cachedQuery) == IsSome(cachedQuery) /\ IsSome(The(cachedQuery).response)
\* `{ data: JSON.parse(cachedQuery.response) }`
HashHitBody(cachedQuery) == [data |-> JSONparse(The(The(cachedQuery).response))]

\* hget settles.
hashHget(r) ==
    /\ pc[r] = "hash_hget"
    /\ \E resolved \in BOOLEAN :
         IF ~resolved
         THEN HashCaught(r, "hget", HashCatch) /\ UNCHANGED res
         ELSE LET cachedQuery == CacheHget(The(bodyHash[r])) IN
              /\ UNCHANGED <<errs, threw>>
              /\ IF IsHashHit(cachedQuery)
                 THEN /\ res' = [res EXCEPT ![r] =
                                   [ by |-> "hash",
                                     headers |-> { <<CACHE_HEADER, "true">>,
                                                   <<CACHE_HASH_HEADER, The(bodyHash[r])>> },
                                     body |-> Some(HashHitBody(cachedQuery)) ]]
                      /\ pc' = [pc EXCEPT ![r] = "done"]
                      /\ UNCHANGED nexts
                 ELSE /\ CallNext(r, "hash", "proxy")
                      /\ UNCHANGED res
    /\ UNCHANGED <<cfg, load, now, storeVars, lapsed, deadline, orig, req, hasCache, bodyHash, fwd,
                   proxyRes, relayed, stamp, ops>>

\* -------------------------------------------------------- proxyMiddleware
\* onProxyReq: the body body-parser consumed is written again.
NoData == << >>
onProxyReq(r) ==
    /\ pc[r] = "proxy"
    /\ fwd' = [fwd EXCEPT ![r] =
                 Some(IF IsSome(req[r].body) THEN JSONstringify(The(req[r].body))
                      ELSE NoData)]
    /\ pc' = [pc EXCEPT ![r] = "upstream"]
    /\ UNCHANGED <<cfg, load, now, storeVars, lapsed, deadline, orig, req, hasCache, bodyHash, res,
                   proxyRes, relayed, errs, stamp, threw, nexts, ops>>

\* The upstream server answers.
upstream(r) ==
    /\ pc[r] = "upstream"
    /\ \E reply \in Replies : proxyRes' = [proxyRes EXCEPT ![r] = Some(reply)]
    /\ pc' = [pc EXCEPT ![r] = "proxyRes"]
    /\ UNCHANGED <<cfg, load, now, storeVars, lapsed, deadline, orig, req, hasCache, bodyHash, res, fwd,
                   relayed, errs, stamp, threw, nexts, ops>>

\* `proxyConfig.onProxyRes(proxyRes, req, res)`: the reply goes on as it came.
Relay(r) ==
    /\ relayed' = [relayed EXCEPT ![r] = proxyRes[r]]
    /\ pc' = [pc EXCEPT ![r] = "done"]

\* `if (hasCache || bodyHash)`
WantsWrite(hc, bh) == IsSome(hc) \/ IsSome(bh)
\* A variant of Cacheable: the errors of the response are not looked at.
Cacheable_DataOnly(response) == Truthy(response.data)
\* `!response.errors && response.data`
Cacheable(response) == ~Truthy(response.errors) /\ Truthy(response.data)
\* A variant of WriteViaHash: the pending directive state is looked at first.
WriteViaHash_DirectiveFirst(hc, bh) == ~IsSome(hc)
\* `if (bodyHash)`: the hash strategy, else the directive strategy.
WriteViaHash(hc, bh) == IsSome(bh)
\* A variant of OnProxyResCatch: the exception leaves onProxyRes.
OnProxyResCatch_Rethrown == [report |-> {}, relay |-> FALSE]
\* `catch (e) { errorOnSet(e) }`: what follows the try block still runs.
OnProxyResCatch == [report |-> {"set"}, relay |-> TRUE]

Caught(r, what, c) ==
    /\ errs' = [errs EXCEPT ![r] = @ \cup c.report]
    /\ Throws(r, what)
    /\ IF c.relay
       THEN Relay(r)
       ELSE pc' = [pc EXCEPT ![r] = "rejected"] /\ UNCHANGED relayed

\* Up to `await decode(proxyRes)`.
onProxyRes(r) ==
    /\ pc[r] = "proxyRes"
    /\ IF WantsWrite(hasCache[r], bodyHash[r])
       THEN pc' = [pc EXCEPT ![r] = "decode"] /\ UNCHANGED relayed
       ELSE Relay(r)
    /\ UNCHANGED <<cfg, load, now, storeVars, lapsed, deadline, orig, req, hasCache, bodyHash, res, fwd,
                   proxyRes, errs, stamp, threw, nexts, ops>>

\* decode settles, JSON.parse runs, and the first write is issued.
onProxyResDecoded(r) ==
    /\ pc[r] = "decode"
    /\ \E decoded \in BOOLEAN :
         IF ~decoded
         THEN Caught(r, "decode", OnProxyResCatch) /\ UNCHANGED ops
         ELSE IF JSONparseThrows(The(proxyRes[r]))
         THEN Caught(r, "json", OnProxyResCatch) /\ UNCHANGED ops
         ELSE LET response == JSONparse(The(proxyRes[r])) IN
              IF ~Cacheable(response)
              THEN Relay(r) /\ UNCHANGED <<errs, threw, ops>>
              ELSE IF WriteViaHash(hasCache[r], bodyHash[r])
              THEN /\ Log(r, <<"hset", The(bodyHash[r]), "request">>)
                   /\ pc' = [pc EXCEPT ![r] = "hset_request"]
                   /\ UNCHANGED <<errs, threw, relayed>>
              ELSE /\ Log(r, <<"set", The(hasCache[r]).id>>)
                   /\ pc' = [pc EXCEPT ![r] = "set"]
                   /\ UNCHANGED <<errs, threw, relayed>>
    /\ UNCHANGED <<cfg, load, now, storeVars, lapsed, deadline, orig, req, hasCache, bodyHash, res, fwd,
                   proxyRes, stamp, nexts>>

\* A variant of HsetRequestValue: the body is stored without its query text.
HsetRequestValue_NoQuery(q) == JSONstringify([The(q.body) EXCEPT !.query = NoQuery])
\* `JSON.stringify(req.body)` and `JSON.stringify(response.data)`
HsetRequestValue(q) == JSONstringify(The(q.body))
HsetResponseValue(response) == JSONstringify(response.data)

\* hset 'request' settles; hset 'response' is issued.
onProxyResHsetRequest(r) ==
    /\ pc[r] = "hset_request"
    /\ \E resolved \in BOOLEAN :
         IF resolved
         THEN /\ hcache' = CacheHset(hcache, The(bodyHash[r]), "request",
                                     HsetRequestValue(req[r]), cfg.globalTimeout)
              /\ Log(r, <<"hset", The(bodyHash[r]), "response">>)
              /\ pc' = [pc EXCEPT ![r] = "hset_response"]
              /\ UNCHANGED <<errs, threw, relayed>>
         ELSE Caught(r, "hset_request", OnProxyResCatch) /\ UNCHANGED <<hcache, ops>>
    /\ UNCHANGED <<cfg, load, now, cache, lapsed, deadline, orig, req, hasCache, bodyHash, res,
                   fwd, proxyRes, stamp, nexts>>

\* hset 'response' settles.
onProxyResHsetResponse(r) ==
    /\ pc[r] = "hset_response"
    /\ \E resolved \in BOOLEAN :
         IF resolved
         THEN /\ hcache' = CacheHset(hcache, The(bodyHash[r]), "response",
                                     HsetResponseValue(JSONparse(The(proxyRes[r]))),
                                     cfg.globalTimeout)
              /\ deadline' = [deadline EXCEPT ![r] = Some(Deadline(cfg.globalTimeout))]
              /\ Relay(r) /\ UNCHANGED <<errs, threw>>
         ELSE Caught(r, "hset_response", OnProxyResCatch) /\ UNCHANGED <<hcache, deadline>>
    /\ UNCHANGED <<cfg, load, now, cache, lapsed, orig, req, hasCache, bodyHash, res,
                   fwd, proxyRes, stamp, nexts, ops>>

\* set settles.
onProxyResSet(r) ==
    /\ pc[r] = "set"
    /\ \E resolved \in BOOLEAN :
         IF resolved
         THEN /\ cache' = CacheSet(The(hasCache[r]).id,
                                   JSONparse(The(proxyRes[r])).data,
                                   The(hasCache[r]).timeout)
              /\ Relay(r) /\ UNCHANGED <<errs, threw>>
         ELSE Caught(r, "set", OnProxyResCatch) /\ UNCHANGED cache
    /\ UNCHANGED <<cfg, load, now, hcache, lapsed, deadline, orig, req, hasCache, bodyHash, res,
                   fwd, proxyRes, stamp, nexts, ops>>

\* ------------------------------------------------------ the specification
Next ==
    \/ Tick
    \/ \E r \in Reqs :
         \/ Arrive(r)
         \/ directiveMiddleware(r)
         \/ directiveGet(r)
         \/ hashMiddleware(r)
         \/ hashHset(r)
         \/ hashHget(r)
         \/ onProxyReq(r)
         \/ upstream(r)
         \/ onProxyRes(r)
         \/ onProxyResDecoded(r)
         \/ onProxyResHsetRequest(r)
         \/ onProxyResHsetResponse(r)
         \/ onProxyResSet(r)

Spec == Init /\ [][Next]_vars

\* The same call repeated, with the history of every call kept.
InitRepeat == InitState /\ cfg \in Configs /\ load = "sequence"
SpecRepeat == InitRepeat /\ [][Next]_vars

\* The same call repeated under a global timeout of several ticks.
InitSliding == InitState /\ cfg \in SlidingConfigs /\ load = "sliding"
SpecSliding == InitSliding /\ [][Next]_vars

\* Calls in flight together.
InitOverlap == InitState /\ cfg \in Configs /\ load = "overlap"
SpecOverlap == InitOverlap /\ [][Next]_vars

\* The calls of several users behind a key modifier.
InitUsers == InitState /\ cfg \in ModifierConfigs /\ load = "users"
SpecUsers == InitUsers /\ [][Next]_vars

\* ================================================================ claims
HasAnnotation(text) == \E i \in 1..Len(text) : text[i] = DIRECTIVE
Annotated(q) == IsSome(q.body) /\ HasAnnotation(The(q.body).query)
LacksQuery(q) == ~IsSome(q.body) \/ The(q.body).query = NoQuery
\* The writes of the response interceptor among the operations of request r.
InterceptorWrites(r) ==
    { i \in 1..Len(ops[r]) :
        \/ ops[r][i][1] = "set"
        \/ ops[r][i][1] = "hset" /\ ops[r][i][3] # "lastRequested" }
HashOps(r) == { i \in 1..Len(ops[r]) : ops[r][i][1] \in {"hset", "hget"} }
Touched(r, h) == \E i \in 1..Len(ops[r]) : ops[r][i] = <<"hset", h, "lastRequested">>

\* C1: when hset or hget fails in the hash phase, the failure is reported and
\* the request still goes on to upstream forwarding (next is called).
C1_HashPhaseFailOpen ==
    \A r \in Reqs :
        (orig[r].header = Undefined /\ threw[r] \cap {"hset", "hget"} # {}) =>
            /\ errs[r] # {}
            /\ "hash" \in nexts[r]
            /\ pc[r] # "rejected"

\* C2: when get fails in the directive phase of an annotated request, the error
\* is reported on the get channel, next is called, the request is as it came,
\* no pending directive state is attached and the directive phase sends no
\* cached response.
C2_DirectiveLookupFailOpen ==
    \A r \in Reqs :
        "get" \in threw[r] =>
            /\ "get" \in errs[r]
            /\ "directive" \in nexts[r]
            /\ req[r] = orig[r]
            /\ hasCache[r] = None
            /\ res[r].by # "directive"
            /\ pc[r] = "hash" => res[r] = NoResponse
C2_Witness ==
    \E r \in Reqs : "get" \in threw[r] /\ Annotated(orig[r]) /\ pc[r] = "hash"

\* C3: when the parser rejects the query text, the failure is caught, reported
\* on the get channel and the request goes on unmodified to the next phase.
C3_ParseFailOpen ==
    \A r \in Reqs :
        "graphql" \in threw[r] =>
            /\ "get" \in errs[r]
            /\ "directive" \in nexts[r]
            /\ req[r] = orig[r]
            /\ pc[r] # "rejected"

\* C4: when get resolves for an annotated request whose derived id is in the
\* scalar store, the directive phase answers {data: stored value} with the
\* cache-hit header, does not call next, writes nothing to the store, and the
\* request never reaches upstream.
C4_HitStep(r) ==
    LET key == DirectiveArgs(orig[r]).id IN
    ( /\ pc[r] = "directive_get"
      /\ pc'[r] # "directive_get"
      /\ "get" \notin threw'[r]
      /\ IsSome(cache[key]) )
    => /\ res'[r] = [ by |-> "directive",
                      headers |-> {<<CACHE_HEADER, "true">>},
                      body |-> Some([data |-> The(cache[key]).val]) ]
       /\ pc'[r] = "done"
       /\ nexts'[r] = {}
       /\ cache' = cache /\ hcache' = hcache
       /\ ops'[r] = ops[r]
C4_Served(r) ==
    res[r].by = "directive" =>
        /\ Annotated(orig[r])
        /\ pc[r] = "done"
        /\ nexts[r] = {}
        /\ fwd[r] = None /\ proxyRes[r] = None
        /\ ops[r] = << <<"get", DirectiveArgs(orig[r]).id>> >>
C4_DirectiveHit ==
    /\ [](\A r \in Reqs : C4_Served(r))
    /\ [][\A r \in Reqs : C4_HitStep(r)]_vars
C4_Witness == \E r \in Reqs : res[r].by = "directive" /\ pc[r] = "done"

\* C5: when get resolves for an annotated request whose derived id is not in
\* the scalar store, the query is rewritten without the annotation (the rest
\* of it kept), {id, timeout} is attached, next is called, and what is later
\* forwarded upstream is the rewritten body.
C5_MissStep(r) ==
    LET text == The(orig[r].body).query
        key == DirectiveArgs(orig[r]).id
    IN ( /\ pc[r] = "directive_get"
         /\ pc'[r] # "directive_get"
         /\ "get" \notin threw'[r]
         /\ ~IsSome(cache[key]) )
       => /\ pc'[r] = "hash"
          /\ "directive" \in nexts'[r]
          /\ hasCache'[r] = Some([id |-> <<text[4]>>, timeout |-> ToNumber(text[5])])
          /\ req'[r].body = Some([query |-> SubSeq(text, 1, 2)])
          /\ res'[r] = NoResponse
C5_Forwarded(r) ==
    (IsSome(hasCache[r]) /\ IsSome(fwd[r])) =>
        /\ The(fwd[r]) = JSONstringify([query |-> SubSeq(The(orig[r].body).query, 1, 2)])
        /\ ~HasAnnotation(The(fwd[r])[2].query)
C5_DirectiveMiss ==
    /\ [](\A r \in Reqs : C5_Forwarded(r))
    /\ [][\A r \in Reqs : C5_MissStep(r)]_vars
C5_Witness ==
    \E r \in Reqs : Annotated(orig[r]) /\ IsSome(hasCache[r]) /\ IsSome(fwd[r])

\* C6: no scalar entry and no 'response' field holds the data of an upstream
\* response that carried errors or had no data, and a request whose reply was
\* such a response issues no write from the response interceptor.
ErrorOrEmpty(reply) ==
    reply \in { JSONstringify(x) : x \in {y \in Results : y.errors = "errs" \/ y.data = Null} }
C6_NoErrorOrEmptyCached ==
    /\ \A k \in Keys : IsSome(cache[k]) => The(cache[k]).val \in Payloads
    /\ \A h \in Hashes :
         (IsSome(hcache[h]) /\ IsSome(The(hcache[h]).fields.response)) =>
            The(The(hcache[h]).fields.response) \in {JSONstringify(d) : d \in Payloads}
    /\ \A r \in Reqs :
         (IsSome(proxyRes[r]) /\ ErrorOrEmpty(The(proxyRes[r]))) =>
            InterceptorWrites(r) = {}
C6_Witness ==
    \E r \in Reqs :
        /\ pc[r] = "done" /\ IsSome(relayed[r])
        /\ IsSome(hasCache[r]) \/ IsSome(bodyHash[r])
        /\ The(proxyRes[r]) = JSONstringify([errors |-> "errs", data |-> "partial"])
        /\ threw[r] = {}

\* C7: whatever fails in the response interceptor (decoding, JSON.parse, a
\* store write), the error is reported on the set channel and the upstream
\* reply is relayed as it came; after a decode failure no write is issued; and
\* every upstream reply is relayed.
SetPhaseFaults == {"decode", "json", "hset_request", "hset_response", "set"}
C7_SetPhaseFailOpen ==
    \A r \in Reqs :
        /\ threw[r] \cap SetPhaseFaults # {} =>
              /\ "set" \in errs[r]
              /\ pc[r] = "done"
              /\ IsSome(relayed[r]) /\ relayed[r] = proxyRes[r]
        /\ threw[r] \cap {"decode", "json"} # {} => InterceptorWrites(r) = {}
        /\ IsSome(proxyRes[r]) =>
              /\ pc[r] \in {"proxyRes", "decode", "hset_request", "hset_response", "set", "done"}
              /\ pc[r] = "done" => relayed[r] = proxyRes[r]
C7_Witness ==
    \E r \in Reqs :
        /\ threw[r] \cap SetPhaseFaults # {}
        /\ pc[r] = "done" /\ relayed[r] = proxyRes[r] /\ "set" \in errs[r]

\* C8: for a request on which the configured bypass header is present, the hash
\* phase attaches no hash, issues no store operation and serves no cached
\* response, and the response interceptor makes no hash-strategy write.
C8_BypassHeader ==
    \A r \in Reqs :
        (IsSome(cfg.cacheBypassHeader) /\ orig[r].header # Undefined) =>
            /\ bodyHash[r] = None
            /\ HashOps(r) = {}
            /\ res[r].by # "hash"

\* C9: a call is repeated after its first run went upstream and stored a
\* successful reply, no store operation failed and the record did not expire:
\* both calls touched 'lastRequested', and the second is answered by the hash
\* phase with the payload upstream gave the first, without going upstream.
FirstComputed(r) ==
    /\ pc[r] = "done" /\ IsSome(bodyHash[r]) /\ threw[r] = {}
    /\ IsSome(relayed[r])
    /\ The(proxyRes[r]) \in {JSONstringify([errors |-> Undefined, data |-> d]) : d \in Payloads}
PastHashPhase(r) ==
    pc[r] \in {"proxy", "upstream", "proxyRes", "decode", "hset_request",
               "hset_response", "set", "done", "rejected"}
Repeated(r1, r2) ==
    /\ r1 < r2 /\ orig[r2] = orig[r1]
    /\ FirstComputed(r1)
    /\ PastHashPhase(r2) /\ threw[r2] = {}
    /\ ~lapsed[r1]
C9_HashIdempotence ==
    \A r1, r2 \in Reqs :
        Repeated(r1, r2) =>
            /\ Touched(r1, The(bodyHash[r1])) /\ Touched(r2, The(bodyHash[r1]))
            /\ pc[r2] = "done"
            /\ res[r2].by = "hash"
            /\ res[r2].body = Some([data |-> JSONparse(The(proxyRes[r1])).data])
            /\ fwd[r2] = None /\ proxyRes[r2] = None
            /\ IsSome(The(hcache[The(bodyHash[r1])]).fields.lastRequested)
C9_Witness ==
    \E r1, r2 \in Reqs : Repeated(r1, r2) /\ pc[r2] = "done" /\ res[r2].by = "hash"

\* C10: for a request without a body or without query text, whatever its
\* method, both phases call next, leave the request as it came, attach no
\* pending state and no hash, and issue no store operation.
C10_NoQueryNoOp ==
    \A r \in Reqs :
        (LacksQuery(orig[r]) /\ pc[r] \notin {"idle", "gone"}) =>
            /\ pc[r] # "rejected"
            /\ req[r] = orig[r]
            /\ hasCache[r] = None /\ bodyHash[r] = None
            /\ ops[r] = << >>
            /\ pc[r] # "directive" => "directive" \in nexts[r]
            /\ pc[r] \notin {"directive", "hash"} => "hash" \in nexts[r]

\* An upstream reply without errors and with data.
Successful(reply) ==
    reply \in {JSONstringify([errors |-> Undefined, data |-> d]) : d \in Payloads}
Lookups(r) == { i \in 1..Len(ops[r]) : ops[r][i][1] \in {"get", "hget"} }
ScalarOps(r) == { i \in 1..Len(ops[r]) : ops[r][i][1] \in {"get", "set"} }
WritesOf(r) ==
    SelectSeq(ops[r], LAMBDA o : o[1] = "set" \/ (o[1] = "hset" /\ o[3] # "lastRequested"))
PlainQuery(q) == IsSome(q.body) /\ HasQuery(q) /\ ~HasAnnotation(The(q.body).query)

\* C11: an annotated request without bypass header whose id was not in the
\* store went through the three stages and upstream gave a successful reply,
\* nothing failed: a scalar set under the directive-derived id was issued and
\* the reply was relayed.
C11_DirectiveWriteBack ==
    \A r \in Reqs :
        ( /\ Annotated(orig[r]) /\ orig[r].header = Undefined
          /\ IsSome(hasCache[r])
          /\ pc[r] = "done" /\ threw[r] = {}
          /\ IsSome(proxyRes[r]) /\ Successful(The(proxyRes[r])) )
        => /\ \E i \in 1..Len(ops[r]) : ops[r][i] = <<"set", The(hasCache[r]).id>>
           /\ relayed[r] = proxyRes[r]

\* C12, as stated: a request whose query text carries no annotation causes no
\* store operation in any stage.
C12_NoCacheInteraction ==
    \A r \in Reqs : PlainQuery(orig[r]) => ops[r] = << >>
\* C12, amended: for a request whose query text carries no annotation the
\* directive phase reads and writes nothing in the store, attaches no pending
\* directive state, leaves the request as it came, sends no response and calls
\* next (unless the handler was rejected); every store operation the request
\* causes is a hash-strategy operation on the record keyed by its body's hash.
C12_DirectivePassThrough ==
    \A r \in Reqs :
        PlainQuery(orig[r]) =>
            /\ ScalarOps(r) = {}
            /\ hasCache[r] = None
            /\ req[r] = orig[r]
            /\ res[r].by # "directive"
            /\ pc[r] \notin {"directive", "rejected"} => "directive" \in nexts[r]
            /\ \A i \in 1..Len(ops[r]) :
                  /\ ops[r][i][1] \in {"hset", "hget"}
                  /\ ops[r][i][2] = BodyHashOf(orig[r])
C12_Witness ==
    \E r \in Reqs :
        /\ PlainQuery(orig[r]) /\ pc[r] = "done" /\ IsSome(relayed[r])
        /\ InterceptorWrites(r) # {}

\* C13: for every request, every key it was looked up under in the request-time
\* phases is the key of every write the response interceptor makes for it.
C13_KeyConsistency ==
    \A r \in Reqs :
        \A i \in Lookups(r) : \A j \in InterceptorWrites(r) :
            ops[r][i][2] = ops[r][j][2]

\* C14: with a hash attached the interceptor's writes are the hsets of
\* 'request' and 'response' on the hash-keyed record, with the global timeout,
\* and no scalar set; a scalar set is made only with no hash attached and
\* pending directive state present, under its id and with its timeout.
C14_Writes(r) ==
    /\ IsSome(bodyHash[r]) =>
          \A i \in InterceptorWrites(r) :
              /\ ops[r][i][1] = "hset"
              /\ ops[r][i][2] = The(bodyHash[r])
              /\ ops[r][i][3] \in {"request", "response"}
    /\ \A i \in 1..Len(ops[r]) :
          ops[r][i][1] = "set" =>
              /\ bodyHash[r] = None /\ IsSome(hasCache[r])
              /\ ops[r][i][2] = The(hasCache[r]).id
    /\ ( /\ pc[r] = "done" /\ threw[r] = {}
         /\ IsSome(proxyRes[r]) /\ Successful(The(proxyRes[r])) )
       => WritesOf(r) =
             IF IsSome(bodyHash[r])
             THEN << <<"hset", The(bodyHash[r]), "request">>,
                     <<"hset", The(bodyHash[r]), "response">> >>
             ELSE IF IsSome(hasCache[r])
             THEN << <<"set", The(hasCache[r]).id>> >>
             ELSE << >>
C14_WriteStep(r) ==
    /\ ( /\ pc[r] \in {"hset_request", "hset_response"}
         /\ pc'[r] # pc[r] /\ threw'[r] = threw[r] )
       => LET field == IF pc[r] = "hset_request" THEN "request" ELSE "response"
              rec == hcache'[The(bodyHash[r])]
          IN /\ IsSome(rec)
             /\ IsSome(The(rec).fields[field])
             /\ The(rec).exp = Deadline(cfg.globalTimeout)
             /\ cache' = cache
    /\ ( pc[r] = "set" /\ pc'[r] # pc[r] /\ threw'[r] = threw[r] )
       => /\ cache'[The(hasCache[r]).id] =
                Some([ val |-> JSONparse(The(proxyRes[r])).data,
                       exp |-> Deadline(The(hasCache[r]).timeout) ])
          /\ hcache' = hcache
C14_WritePathSelection ==
    /\ [](\A r \in Reqs : C14_Writes(r))
    /\ [][\A r \in Reqs : C14_WriteStep(r)]_vars
C14_Witness ==
    \E r \in Reqs :
        /\ IsSome(hasCache[r]) /\ IsSome(bodyHash[r])
        /\ pc[r] = "done" /\ threw[r] = {} /\ IsSome(relayed[r])
        /\ Successful(The(proxyRes[r]))

\* C15: a request never carries both pending directive state and a hash, and
\* were both present the interceptor's write would be the scalar set.
C15_ExclusiveDirectiveFirst ==
    \A r \in Reqs :
        /\ ~(IsSome(hasCache[r]) /\ IsSome(bodyHash[r]))
        /\ (IsSome(hasCache[r]) /\ IsSome(bodyHash[r])) =>
              \A i \in InterceptorWrites(r) : ops[r][i][1] = "set"

FieldOf(hc, h, field) == IF IsSome(hc[h]) THEN The(hc[h]).fields[field] ELSE None
SameHash(r, h) == bodyHash[r] = Some(h)

\* C16: with requests in flight together, a 'response' field is the serialized
\* payload of a successful upstream reply to one of the requests with that
\* hash, each resolved write of 'response' leaves its own payload there (the
\* last write wins) and nothing else changes the field but expiry; a 'request'
\* field is the serialized body of the requests with that hash; and a finished
\* caller got its own upstream reply or the payload of another one's reply.
C16_Record(h) ==
    /\ IsSome(FieldOf(hcache, h, "response")) =>
          \E r \in Reqs :
              /\ SameHash(r, h) /\ IsSome(proxyRes[r]) /\ Successful(The(proxyRes[r]))
              /\ The(FieldOf(hcache, h, "response")) =
                    JSONstringify(JSONparse(The(proxyRes[r])).data)
    /\ IsSome(FieldOf(hcache, h, "request")) =>
          /\ \E r \in Reqs : SameHash(r, h)
          /\ \A r \in Reqs :
                SameHash(r, h) =>
                    The(FieldOf(hcache, h, "request")) = JSONstringify(The(req[r].body))
C16_Caller(r) ==
    pc[r] = "done" =>
        \/ IsSome(relayed[r]) /\ relayed[r] = proxyRes[r] /\ res[r] = NoResponse
        \/ /\ res[r].by \in {"hash", "directive"} /\ relayed[r] = None
           /\ \E s \in Reqs \ {r} :
                 /\ IsSome(proxyRes[s]) /\ Successful(The(proxyRes[s]))
                 /\ res[r].body = Some([data |-> JSONparse(The(proxyRes[s])).data])
C16_ResponseStep(h) ==
    /\ \A r \in Reqs :
          ( /\ SameHash(r, h) /\ pc[r] = "hset_response" /\ pc'[r] = "done"
            /\ threw'[r] = threw[r] )
          => FieldOf(hcache', h, "response") =
                Some(JSONstringify(JSONparse(The(proxyRes[r])).data))
    /\ FieldOf(hcache', h, "response") # FieldOf(hcache, h, "response") =>
          \/ now' # now
          \/ \E r \in Reqs :
                SameHash(r, h) /\ pc[r] = "hset_response" /\ pc'[r] = "done"
C16_ConcurrentIdentical ==
    /\ [](\A h \in Hashes : C16_Record(h))
    /\ [](\A r \in Reqs : C16_Caller(r))
    /\ [][\A h \in Hashes : C16_ResponseStep(h)]_vars
C16_Witness ==
    \E r1, r2 \in Reqs :
        /\ r1 # r2 /\ IsSome(bodyHash[r1]) /\ bodyHash[r2] = bodyHash[r1]
        /\ pc[r1] = "done" /\ pc[r2] = "done"
        /\ threw[r1] = {} /\ threw[r2] = {}
        /\ IsSome(proxyRes[r1]) /\ IsSome(proxyRes[r2])
        /\ Successful(The(proxyRes[r1])) /\ Successful(The(proxyRes[r2]))
        /\ proxyRes[r1] # proxyRes[r2]
        /\ Len(WritesOf(r1)) = 2 /\ Len(WritesOf(r2)) = 2
        /\ IsSome(FieldOf(hcache, The(bodyHash[r1]), "response"))

\* C17: the hash phase acts only after the directive phase called next and sent
\* nothing; upstream forwarding only after the hash phase called next and sent
\* nothing; the interceptor's writes are issued only after the upstream reply
\* and none after the relay; a request answered from the cache by a phase never
\* reaches a later stage.
HashStage == {"hash", "hash_hset", "hash_hget"}
ProxyStage == {"proxy", "upstream", "proxyRes", "decode", "hset_request",
               "hset_response", "set"}
C17_Order(r) ==
    /\ (pc[r] \in HashStage \/ HashOps(r) # {} \/ IsSome(bodyHash[r])) =>
          "directive" \in nexts[r] /\ res[r].by # "directive"
    /\ pc[r] \in HashStage => res[r] = NoResponse /\ fwd[r] = None
    /\ (pc[r] \in ProxyStage \/ IsSome(fwd[r])) =>
          nexts[r] = {"directive", "hash"} /\ res[r] = NoResponse
    /\ IsSome(proxyRes[r]) => IsSome(fwd[r])
    /\ InterceptorWrites(r) # {} => IsSome(proxyRes[r])
    /\ IsSome(relayed[r]) => pc[r] = "done" /\ relayed[r] = proxyRes[r]
    /\ res[r].by = "directive" =>
          /\ pc[r] = "done" /\ nexts[r] = {}
          /\ HashOps(r) = {} /\ bodyHash[r] = None
          /\ fwd[r] = None /\ proxyRes[r] = None /\ relayed[r] = None
    /\ res[r].by = "hash" =>
          /\ pc[r] = "done" /\ nexts[r] = {"directive"}
          /\ fwd[r] = None /\ proxyRes[r] = None /\ relayed[r] = None
          /\ InterceptorWrites(r) = {}
C17_AfterRelay(r) ==
    (IsSome(relayed[r]) /\ pc'[r] = "done") => ops'[r] = ops[r]
C17_StageOrdering ==
    /\ [](\A r \in Reqs : C17_Order(r))
    /\ [][\A r \in Reqs : C17_AfterRelay(r)]_vars
C17_Witness ==
    \E r \in Reqs :
        /\ pc[r] = "done" /\ IsSome(relayed[r])
        /\ nexts[r] = {"directive", "hash"}
        /\ Len(WritesOf(r)) = 2

\* C19, as stated: a hash-keyed record holds 'response' only together with
\* 'request' and 'lastRequested', and the hash of the stored 'request' is the
\* record's key.
C19_RecordIntegrity ==
    \A h \in Hashes :
        IsSome(FieldOf(hcache, h, "response")) =>
            /\ IsSome(FieldOf(hcache, h, "request"))
            /\ IsSome(FieldOf(hcache, h, "lastRequested"))
            /\ md5(The(FieldOf(hcache, h, "request"))) = h
\* C19, amended: the hash of a stored 'request' is the record's key; and while
\* no record can have expired (global timeout 0, or no time has passed) a
\* record holds 'response' only together with 'request' and 'lastRequested'.
C19_RecordIntegrityUnlessExpired ==
    \A h \in Hashes :
        /\ IsSome(FieldOf(hcache, h, "request")) =>
              md5(The(FieldOf(hcache, h, "request"))) = h
        /\ ( /\ IsSome(FieldOf(hcache, h, "response"))
             /\ cfg.globalTimeout = 0 \/ now = 0 )
           => /\ IsSome(FieldOf(hcache, h, "request"))
              /\ IsSome(FieldOf(hcache, h, "lastRequested"))
C19_Witness ==
    \E r \in Reqs :
        /\ Annotated(orig[r]) /\ IsSome(bodyHash[r]) /\ pc[r] = "done"
        /\ cfg.globalTimeout = 0 /\ now > 0
        /\ IsSome(FieldOf(hcache, The(bodyHash[r]), "response"))
        /\ md5(The(FieldOf(hcache, The(bodyHash[r]), "request"))) = The(bodyHash[r])

\* C18: an annotated request answered from the cache by either phase gets a
\* payload upstream produced for a request with the same final directive key
\* (the declared id after the key modifier), nothing having failed.
DirectiveKey(q) == DirectiveArgs(q).id
C18_KeyIsolation ==
    \A r \in Reqs :
        ( /\ Annotated(orig[r]) /\ res[r].by \in {"directive", "hash"}
          /\ \A s \in Reqs : threw[s] = {} )
        =>  \E s \in Reqs \ {r} :
                /\ Annotated(orig[s])
                /\ DirectiveKey(orig[s]) = DirectiveKey(orig[r])
                /\ IsSome(proxyRes[s]) /\ Successful(The(proxyRes[s]))
                /\ res[r].body = Some([data |-> JSONparse(The(proxyRes[s])).data])

\* C20: with a positive global timeout, the touch of the hash phase sets the
\* record's expiry to now + global timeout and keeps its other fields, and the
\* lookup is issued only then; a lookup that finds 'response' answers with it;
\* a record is live until its expiry and goes only when the clock reaches it,
\* one global timeout after the last hset on it.
C20_TouchStep(r) ==
    (cfg.globalTimeout > 0 /\ pc[r] = "hash_hset" /\ pc'[r] = "hash_hget") =>
        LET h == The(bodyHash[r]) IN
        /\ IsSome(hcache'[h])
        /\ The(hcache'[h]).exp = now + cfg.globalTimeout
        /\ IsSome(FieldOf(hcache', h, "lastRequested"))
        /\ FieldOf(hcache', h, "request") = FieldOf(hcache, h, "request")
        /\ FieldOf(hcache', h, "response") = FieldOf(hcache, h, "response")
        /\ ops'[r] = Append(ops[r], <<"hget", h>>)
C20_LookupStep(r) ==
    ( /\ cfg.globalTimeout > 0 /\ pc[r] = "hash_hget" /\ pc'[r] # pc[r]
      /\ threw'[r] = threw[r]
      /\ IsSome(FieldOf(hcache, The(bodyHash[r]), "response")) )
    => /\ pc'[r] = "done"
       /\ res'[r].by = "hash"
       /\ res'[r].body =
             Some([data |-> JSONparse(The(FieldOf(hcache, The(bodyHash[r]), "response")))])
C20_ExpiryStep(h) ==
    (cfg.globalTimeout > 0 /\ IsSome(hcache[h]) /\ ~IsSome(hcache'[h])) =>
        /\ now' = now + 1
        /\ The(hcache[h]).exp = now'
C20_Live(h) ==
    (cfg.globalTimeout > 0 /\ IsSome(hcache[h])) =>
        /\ now < The(hcache[h]).exp
        /\ The(hcache[h]).exp <= now + cfg.globalTimeout
C20_SlidingExpiry ==
    /\ [](\A h \in Hashes : C20_Live(h))
    /\ [][/\ \A r \in Reqs : C20_TouchStep(r) /\ C20_LookupStep(r)
          /\ \A h \in Hashes : C20_ExpiryStep(h)]_vars
\* The stored response has outlived the expiry its write set, and is still there.
C20_Witness ==
    \E r1, r2 \in Reqs :
        /\ r1 < r2 /\ IsSome(deadline[r1]) /\ bodyHash[r2] = bodyHash[r1]
        /\ cfg.globalTimeout > 0
        /\ res[r2].by = "hash"
        /\ now >= The(deadline[r1])
        /\ IsSome(FieldOf(hcache, The(bodyHash[r1]), "response"))

====
